---- MODULE Spec2Model ----
(***************************************************************************)
(* Model of the matchmaking / signaling core of routes.ts (registerRoutes) *)
(* and of the in-memory report store (MemStorage).                         *)
(*                                                                         *)
(* Every Socket.IO event handler runs to completion before the next one    *)
(* starts (single-threaded event loop, no await inside a handler), so each *)
(* handler is one atomic action.  The variables `turn` and `emitted`       *)
(* record what the last handler was and what it sent, so that per-turn     *)
(* properties can be stated over states.  Client payloads are taken to be  *)
(* well-formed: preferences is an object with a gender and a country.      *)
(***************************************************************************)
EXTENDS Naturals, Sequences, FiniteSets, TLC

\* ---------------------------------------------------------------- domains
\* Socket identifiers handed out by the transport (socket.id).
Sockets == {"s1", "s2", "s3"}
\* JavaScript null / undefined for an identifier-valued slot.
Null == "null"
\* The keys of waitingUsers, which are also the values user.gender is
\* compared with.
Genders == {"male", "female", "both"}
\* preferences objects sent by clients: the defaults, one that asks for the
\* male pool, and one that asks for a country.
Preferences ==
    {[gender |-> "both", country |-> "any"],
     [gender |-> "male", country |-> "us"],
     [gender |-> "both", country |-> "fr"]}
\* Opaque relay payloads and report texts.
Payloads == {"p1"}
Reasons == {"spam"}
Details == {"d1"}
\* The relayed event names.
RelayKinds == {"offer", "answer", "ice-candidate", "chat-message"}
\* Cap on the number of reports MemStorage is asked to hold.
MaxReports == 1

VARIABLES
    activeUsers,      \* Map socket.id -> user object
    waitingUsers,     \* { male, female, both }: Sets in insertion order
    reports,          \* MemStorage.reports: Map id -> Report
    reportIdCounter,  \* MemStorage.reportIdCounter
    emitted,          \* messages delivered during the last handler, in order
    turn              \* the last handled event

vars == <<activeUsers, waitingUsers, reports, reportIdCounter, emitted, turn>>

\* ---------------------------------------------------------------- helpers
\* Set.prototype.delete on an insertion-ordered Set.
SetDelete(s, id) == SelectSeq(s, LAMBDA x : x # id)

\* Set.prototype.add on an insertion-ordered Set.
SetAdd(s, id) == IF \E i \in 1..Len(s) : s[i] = id THEN s ELSE Append(s, id)

\* MapDelete with the entry left in place.
MapDeleteKeeps(m, k) == m

\* Map.prototype.delete
MapDelete(m, k) == [x \in DOMAIN m \ {k} |-> m[x]]

\* io.to(id).emit(event, payload) / socket.emit(event): delivered to the
\* socket whose own room is `to`, if it is connected.
Emit(users, to, event, payload) ==
    IF to \in DOMAIN users
    THEN <<[to |-> to, event |-> event, payload |-> payload]>>
    ELSE <<>>

\* A connection handler that registers the session with a declared gender.
NewUserMale(id) ==
    [id |-> id, gender |-> "male",
     preferences |-> [gender |-> "both", country |-> "any"],
     currentPeer |-> Null]

\* The object created for a new connection.
NewUser(id) ==
    [id |-> id, gender |-> "both",
     preferences |-> [gender |-> "both", country |-> "any"],
     currentPeer |-> Null]

\* user.currentPeer of activeUsers.get(id), null when there is no user.
CurrentPeerOf(users, id) ==
    IF id \in DOMAIN users THEN users[id].currentPeer ELSE Null

\* PotentialMatches without the country filter.
PotentialMatchesNoCountryFilter(users, pools, sid) ==
    LET user == users[sid]
    IN  IF user.preferences.gender = "male" THEN pools.male
        ELSE IF user.preferences.gender = "female" THEN pools.female
        ELSE pools.male \o pools.female \o pools.both

\* PotentialMatches where a "male" request reads the "both" Set.
PotentialMatchesMaleReadsBoth(users, pools, sid) ==
    LET user == users[sid]
        byGender ==
            IF user.preferences.gender = "male" THEN pools.both
            ELSE IF user.preferences.gender = "female" THEN pools.female
            ELSE pools.male \o pools.female \o pools.both
    IN  IF user.preferences.country # "any"
        THEN SelectSeq(byGender, LAMBDA id :
                 /\ id \in DOMAIN users
                 /\ \/ users[id].preferences.country = user.preferences.country
                    \/ users[id].preferences.country = "any")
        ELSE byGender

\* The candidate list with the "both" Set spread first.
PotentialMatchesBothFirst(users, pools, sid) ==
    LET user == users[sid]
        byGender ==
            IF user.preferences.gender = "male" THEN pools.male
            ELSE IF user.preferences.gender = "female" THEN pools.female
            ELSE pools.both \o pools.male \o pools.female
    IN  IF user.preferences.country # "any"
        THEN SelectSeq(byGender, LAMBDA id :
                 /\ id \in DOMAIN users
                 /\ \/ users[id].preferences.country = user.preferences.country
                    \/ users[id].preferences.country = "any")
        ELSE byGender

\* findMatch(socket): the candidate list before the self-exclusion loop.
PotentialMatches(users, pools, sid) ==
    LET user == users[sid]
        byGender ==
            IF user.preferences.gender = "male" THEN pools.male
            ELSE IF user.preferences.gender = "female" THEN pools.female
            ELSE pools.male \o pools.female \o pools.both
    IN  IF user.preferences.country # "any"
        THEN SelectSeq(byGender, LAMBDA id :
                 /\ id \in DOMAIN users
                 /\ \/ users[id].preferences.country = user.preferences.country
                    \/ users[id].preferences.country = "any")
        ELSE byGender

\* findMatch returning the last surviving candidate instead of the first.
findMatchLast(users, pools, sid) ==
    IF sid \notin DOMAIN users THEN Null
    ELSE LET others == SelectSeq(PotentialMatches(users, pools, sid),
                                 LAMBDA id : id # sid)
         IN  IF others = <<>> THEN Null ELSE others[Len(others)]

\* findMatch(socket)
findMatch(users, pools, sid) ==
    IF sid \notin DOMAIN users THEN Null
    ELSE LET others == SelectSeq(PotentialMatches(users, pools, sid),
                                 LAMBDA id : id # sid)
         IN  IF others = <<>> THEN Null ELSE Head(others)

\* removeFromWaitingPools that forgets the "both" Set.
removeFromWaitingPoolsNotBoth(pools, id) ==
    [male   |-> SetDelete(pools.male, id),
     female |-> SetDelete(pools.female, id),
     both   |-> pools.both]

\* removeFromWaitingPools(socketId)
removeFromWaitingPools(pools, id) ==
    [male   |-> SetDelete(pools.male, id),
     female |-> SetDelete(pools.female, id),
     both   |-> SetDelete(pools.both, id)]

\* addToWaitingPool without the three deletes that come first.
addToWaitingPoolNoClear(users, pools, sid) ==
    IF sid \notin DOMAIN users THEN pools
    ELSE IF users[sid].gender = "male"
         THEN [pools EXCEPT !.male = SetAdd(pools.male, sid)]
         ELSE IF users[sid].gender = "female"
         THEN [pools EXCEPT !.female = SetAdd(pools.female, sid)]
         ELSE [pools EXCEPT !.both = SetAdd(pools.both, sid)]

\* addToWaitingPool(socket)
addToWaitingPool(users, pools, sid) ==
    IF sid \notin DOMAIN users THEN pools
    ELSE LET cleared == removeFromWaitingPools(pools, sid)
         IN  IF users[sid].gender = "male"
             THEN [cleared EXCEPT !.male = SetAdd(cleared.male, sid)]
             ELSE IF users[sid].gender = "female"
             THEN [cleared EXCEPT !.female = SetAdd(cleared.female, sid)]
             ELSE [cleared EXCEPT !.both = SetAdd(cleared.both, sid)]

\* createReport with reporter and reported swapped.
createReportSwapped(store, counter, insertReport) ==
    (counter :> [id         |-> counter,
                 reporterId |-> insertReport.reportedId,
                 reportedId |-> insertReport.reporterId,
                 reason     |-> insertReport.reason,
                 details    |-> insertReport.details]) @@ store

\* MemStorage.createReport(insertReport): the Map after the call (the
\* timestamp field is not modelled).
createReport(store, counter, insertReport) ==
    (counter :> [id         |-> counter,
                 reporterId |-> insertReport.reporterId,
                 reportedId |-> insertReport.reportedId,
                 reason     |-> insertReport.reason,
                 details    |-> insertReport.details]) @@ store

\* The record kept of the last handled event: the event name ("relay" for
\* the four relayed events), the socket it arrived on, that socket's
\* currentPeer when the handler started, the result of findMatch (find-peer
\* only) and whether the handler threw.
Turn(op, id, peer, match, threw) ==
    [op |-> op, id |-> id, peer |-> peer, match |-> match, threw |-> threw]

\* ------------------------------------------------- pieces of the handlers
\* FindPeerTeardown that clears only the requester's side.
FindPeerTeardownOwnSideOnly(users, sid) ==
    [users EXCEPT ![sid].currentPeer = Null]

\* find-peer, "if already connected to a peer, disconnect first": the
\* registry after the block.
FindPeerTeardown(users, sid) ==
    LET p == users[sid].currentPeer
    IN  IF p = Null THEN users
        ELSE LET cleared == IF p \in DOMAIN users
                            THEN [users EXCEPT ![p].currentPeer = Null]
                            ELSE users
             IN  [cleared EXCEPT ![sid].currentPeer = Null]

\* FindPeerTeardownNotify that tells nobody.
FindPeerTeardownNotifySilent(users, sid) == <<>>

\* find-peer, the notification sent by that block.
FindPeerTeardownNotify(users, sid) ==
    LET p == users[sid].currentPeer
    IN  IF p # Null /\ p \in DOMAIN users
        THEN Emit(users, p, "peer-disconnected", Null)
        ELSE <<>>

\* find-peer, "update both users" (matchId is registered).
CommitPairing(users, sid, matchId) ==
    [users EXCEPT ![sid].currentPeer = matchId, ![matchId].currentPeer = sid]

\* CommitPools that dequeues the requester only.
CommitPoolsSeekerOnly(pools, sid, matchId) ==
    removeFromWaitingPools(pools, sid)

\* find-peer, "remove both from waiting pools".
CommitPools(pools, sid, matchId) ==
    removeFromWaitingPools(removeFromWaitingPools(pools, sid), matchId)

\* ReadyNotify that tells the requester only.
ReadyNotifySeekerOnly(users, sid, matchId) ==
    Emit(users, sid, "ready", Null)

\* find-peer, "notify both users".
ReadyNotify(users, sid, matchId) ==
    Emit(users, sid, "ready", Null) \o Emit(users, matchId, "ready", Null)

\* RelayOut that also echoes to the sender.
RelayOutEcho(users, sid, kind, payload) ==
    IF sid \in DOMAIN users /\ users[sid].currentPeer # Null
    THEN Emit(users, users[sid].currentPeer, kind, payload)
         \o Emit(users, sid, kind, payload)
    ELSE <<>>

\* The body shared by the offer, answer, ice-candidate and chat-message
\* handlers: what is sent.
RelayOut(users, sid, kind, payload) ==
    IF sid \in DOMAIN users /\ users[sid].currentPeer # Null
    THEN Emit(users, users[sid].currentPeer, kind, payload)
    ELSE <<>>

\* report-user clearing only the reported side.
ReportTeardownPeerOnly(users, sid) ==
    LET p == users[sid].currentPeer
    IN  IF p \in DOMAIN users
        THEN [users EXCEPT ![p].currentPeer = Null]
        ELSE users

\* report-user, "disconnect users": the registry after the block (sid is
\* registered and has a currentPeer).
ReportTeardown(users, sid) ==
    LET p == users[sid].currentPeer
        cleared == IF p \in DOMAIN users
                   THEN [users EXCEPT ![p].currentPeer = Null]
                   ELSE users
    IN  [cleared EXCEPT ![sid].currentPeer = Null]

\* report-user, the notification sent by that block.
ReportNotify(users, sid) ==
    LET p == users[sid].currentPeer
    IN  IF p \in DOMAIN users
        THEN Emit(users, p, "peer-disconnected", Null)
        ELSE <<>>

\* DisconnectNotify that also tells the socket that is leaving.
DisconnectNotifyBoth(users, sid) ==
    IF CurrentPeerOf(users, sid) # Null
    THEN Emit(users, users[sid].currentPeer, "peer-disconnected", Null)
         \o Emit(users, sid, "peer-disconnected", Null)
    ELSE <<>>

\* disconnect, "notify peer of disconnection".
DisconnectNotify(users, sid) ==
    IF CurrentPeerOf(users, sid) # Null
    THEN Emit(users, users[sid].currentPeer, "peer-disconnected", Null)
    ELSE <<>>

\* DisconnectPeerUpdate that leaves the peer pointing at the leaver.
DisconnectPeerUpdateNone(users, sid) == users

\* disconnect, "update peer": the registry after the block.
DisconnectPeerUpdate(users, sid) ==
    LET p == CurrentPeerOf(users, sid)
    IN  IF p # Null /\ p \in DOMAIN users
        THEN [users EXCEPT ![p].currentPeer = Null]
        ELSE users

\* ---------------------------------------------------------------- Init
Init ==
    /\ activeUsers = << >>
    /\ waitingUsers = [male |-> <<>>, female |-> <<>>, both |-> <<>>]
    /\ reports = << >>
    /\ reportIdCounter = 1
    /\ emitted = <<>>
    /\ turn = Turn("init", Null, Null, Null, FALSE)

\* ---------------------------------------------------------------- actions
\* io.on("connection", ...): the transport never hands out an identifier
\* that is in use.
Connect(sid) ==
    /\ sid \notin DOMAIN activeUsers
    /\ activeUsers' = (sid :> NewUser(sid)) @@ activeUsers
    /\ emitted' = <<>>
    /\ turn' = Turn("connection", sid, Null, Null, FALSE)
    /\ UNCHANGED <<waitingUsers, reports, reportIdCounter>>

\* UpdatePreferences that also re-queues the session.
UpdatePreferencesRequeue(sid, preferences) ==
    /\ activeUsers' =
           IF sid \in DOMAIN activeUsers
           THEN [activeUsers EXCEPT ![sid].preferences = preferences]
           ELSE activeUsers
    /\ waitingUsers' = addToWaitingPool(activeUsers, waitingUsers, sid)
    /\ emitted' = <<>>
    /\ turn' = Turn("update-preferences", sid,
                    CurrentPeerOf(activeUsers, sid), Null, FALSE)
    /\ UNCHANGED <<reports, reportIdCounter>>

\* UpdatePreferences that creates the user when there is none.
UpdatePreferencesUpsert(sid, preferences) ==
    /\ activeUsers' =
           IF sid \in DOMAIN activeUsers
           THEN [activeUsers EXCEPT ![sid].preferences = preferences]
           ELSE (sid :> [NewUser(sid) EXCEPT !.preferences = preferences])
                    @@ activeUsers
    /\ emitted' = <<>>
    /\ turn' = Turn("update-preferences", sid,
                    CurrentPeerOf(activeUsers, sid), Null, FALSE)
    /\ UNCHANGED <<waitingUsers, reports, reportIdCounter>>

\* socket.on("update-preferences", ...)
UpdatePreferences(sid, preferences) ==
    /\ activeUsers' =
           IF sid \in DOMAIN activeUsers
           THEN [activeUsers EXCEPT ![sid].preferences = preferences]
           ELSE activeUsers
    /\ emitted' = <<>>
    /\ turn' = Turn("update-preferences", sid,
                    CurrentPeerOf(activeUsers, sid), Null, FALSE)
    /\ UNCHANGED <<waitingUsers, reports, reportIdCounter>>

\* socket.on("find-peer", ...)
FindPeer(sid) ==
    IF sid \notin DOMAIN activeUsers
    THEN /\ emitted' = <<>>
         /\ turn' = Turn("find-peer", sid, Null, Null, FALSE)
         /\ UNCHANGED <<activeUsers, waitingUsers, reports, reportIdCounter>>
    ELSE LET torn    == FindPeerTeardown(activeUsers, sid)
             bye     == FindPeerTeardownNotify(activeUsers, sid)
             matchId == findMatch(torn, waitingUsers, sid)
             before  == activeUsers[sid].currentPeer
         IN  /\ UNCHANGED <<reports, reportIdCounter>>
             /\ IF matchId # Null
                THEN IF matchId \in DOMAIN torn
                     THEN /\ activeUsers' = CommitPairing(torn, sid, matchId)
                          /\ waitingUsers' =
                                 CommitPools(waitingUsers, sid, matchId)
                          /\ emitted' = bye \o ReadyNotify(torn, sid, matchId)
                          /\ turn' = Turn("find-peer", sid, before,
                                          matchId, FALSE)
                     ELSE \* match is undefined: the write to match.currentPeer
                          \* throws after user.currentPeer was assigned
                          /\ activeUsers' =
                                 [torn EXCEPT ![sid].currentPeer = matchId]
                          /\ waitingUsers' = waitingUsers
                          /\ emitted' = bye
                          /\ turn' = Turn("find-peer", sid, before,
                                          matchId, TRUE)
                ELSE /\ activeUsers' = torn
                     /\ waitingUsers' =
                            addToWaitingPool(torn, waitingUsers, sid)
                     /\ emitted' = bye
                     /\ turn' = Turn("find-peer", sid, before, Null, FALSE)

\* socket.on("offer" | "answer" | "ice-candidate" | "chat-message", ...)
Relay(sid, kind, payload) ==
    /\ emitted' = RelayOut(activeUsers, sid, kind, payload)
    /\ turn' = Turn("relay", sid, CurrentPeerOf(activeUsers, sid), Null, FALSE)
    /\ UNCHANGED <<activeUsers, waitingUsers, reports, reportIdCounter>>

\* socket.on("report-user", ...)
ReportUser(sid, reason, details) ==
    IF sid \in DOMAIN activeUsers /\ activeUsers[sid].currentPeer # Null
    THEN /\ reportIdCounter <= MaxReports
         /\ reports' = createReport(reports, reportIdCounter,
                           [reporterId |-> sid,
                            reportedId |-> activeUsers[sid].currentPeer,
                            reason |-> reason, details |-> details])
         /\ reportIdCounter' = reportIdCounter + 1
         /\ activeUsers' = ReportTeardown(activeUsers, sid)
         /\ emitted' = ReportNotify(activeUsers, sid)
         /\ turn' = Turn("report-user", sid, activeUsers[sid].currentPeer,
                         Null, FALSE)
         /\ UNCHANGED waitingUsers
    ELSE /\ emitted' = <<>>
         /\ turn' = Turn("report-user", sid, Null, Null, FALSE)
         /\ UNCHANGED <<activeUsers, waitingUsers, reports, reportIdCounter>>

\* socket.on("disconnect", ...)
Disconnect(sid) ==
    /\ emitted' = DisconnectNotify(activeUsers, sid)
    /\ waitingUsers' = removeFromWaitingPools(waitingUsers, sid)
    /\ activeUsers' = MapDelete(DisconnectPeerUpdate(activeUsers, sid), sid)
    /\ turn' = Turn("disconnect", sid, CurrentPeerOf(activeUsers, sid),
                    Null, FALSE)
    /\ UNCHANGED <<reports, reportIdCounter>>

Next ==
    \E sid \in Sockets :
        \/ Connect(sid)
        \/ \E preferences \in Preferences : UpdatePreferences(sid, preferences)
        \/ FindPeer(sid)
        \/ \E kind \in RelayKinds, payload \in Payloads : Relay(sid, kind, payload)
        \/ \E reason \in Reasons, details \in Details :
               ReportUser(sid, reason, details)
        \/ Disconnect(sid)

Spec == Init /\ [][Next]_vars


\* ------------------------------------------- findMatch on declared genders
\* The connection handler always stores gender "both", so the "male" and
\* "female" branches of findMatch and addToWaitingPool are exercised by
\* starting from user objects whose gender field holds any of the three
\* values, and letting the handlers run from there.
MatchPreferences ==
    {[gender |-> "both", country |-> "any"],
     [gender |-> "male", country |-> "any"],
     [gender |-> "female", country |-> "us"],
     [gender |-> "both", country |-> "fr"]}

\* A freshly connected user object with its gender field set.
DeclaredUser(id, gender) == [NewUser(id) EXCEPT !.gender = gender]

InitMatch ==
    /\ \E gender \in [Sockets -> Genders] :
           activeUsers = [id \in Sockets |-> DeclaredUser(id, gender[id])]
    /\ waitingUsers = [male |-> <<>>, female |-> <<>>, both |-> <<>>]
    /\ reports = << >>
    /\ reportIdCounter = 1
    /\ emitted = <<>>
    /\ turn = Turn("init", Null, Null, Null, FALSE)

NextMatch ==
    \E sid \in Sockets :
        \/ \E preferences \in MatchPreferences :
               UpdatePreferences(sid, preferences)
        \/ FindPeer(sid)

SpecMatch == InitMatch /\ [][NextMatch]_vars


\* ------------------------------------------- a report store that can fail
\* What can become of the promise returned by IStorage.createReport: the
\* write is done, it is refused, or it is still outstanding when the
\* handler returns.  MemStorage always resolves.
StorageOutcomes == {"resolved", "rejected", "pending"}

\* The store after the call, by outcome.
StoreAfter(store, counter, insertReport, outcome) ==
    IF outcome = "resolved"
    THEN createReport(store, counter, insertReport)
    ELSE store

\* A report-user handler that waits for the write and stops when it fails.
TeardownAfterStorageAwaited(users, sid, outcome) ==
    IF outcome = "resolved" THEN ReportTeardown(users, sid) ELSE users

\* report-user: the registry after the handler, given what became of the
\* createReport promise.  The handler neither awaits the promise nor
\* catches anything, and an async function never throws into its caller.
TeardownAfterStorage(users, sid, outcome) == ReportTeardown(users, sid)

\* socket.on("report-user", ...) against a store with the given outcome.
ReportUserStorage(sid, reason, details, outcome) ==
    IF sid \in DOMAIN activeUsers /\ activeUsers[sid].currentPeer # Null
    THEN /\ outcome = "resolved" => reportIdCounter <= MaxReports
         /\ reports' = StoreAfter(reports, reportIdCounter,
                           [reporterId |-> sid,
                            reportedId |-> activeUsers[sid].currentPeer,
                            reason |-> reason, details |-> details],
                           outcome)
         /\ reportIdCounter' =
                IF outcome = "resolved" THEN reportIdCounter + 1
                ELSE reportIdCounter
         /\ activeUsers' = TeardownAfterStorage(activeUsers, sid, outcome)
         /\ emitted' = ReportNotify(activeUsers, sid)
         /\ turn' = Turn("report-user", sid, activeUsers[sid].currentPeer,
                         Null, FALSE)
         /\ UNCHANGED waitingUsers
    ELSE /\ emitted' = <<>>
         /\ turn' = Turn("report-user", sid, Null, Null, FALSE)
         /\ UNCHANGED <<activeUsers, waitingUsers, reports, reportIdCounter>>

NextStore ==
    \E sid \in Sockets :
        \/ Connect(sid)
        \/ \E preferences \in Preferences : UpdatePreferences(sid, preferences)
        \/ FindPeer(sid)
        \/ \E kind \in RelayKinds, payload \in Payloads : Relay(sid, kind, payload)
        \/ \E reason \in Reasons, details \in Details,
              outcome \in StorageOutcomes :
               ReportUserStorage(sid, reason, details, outcome)
        \/ Disconnect(sid)

SpecStore == Init /\ [][NextStore]_vars


\* --------------------------------- the program, every gender preference
\* The program with clients that ask for each of the three genders and do
\* not restrict the country.
GenderPreferences ==
    {[gender |-> "both",   country |-> "any"],
     [gender |-> "male",   country |-> "any"],
     [gender |-> "female", country |-> "any"]}

NextGender ==
    \E sid \in Sockets :
        \/ Connect(sid)
        \/ \E preferences \in GenderPreferences :
               UpdatePreferences(sid, preferences)
        \/ FindPeer(sid)
        \/ \E kind \in RelayKinds, payload \in Payloads : Relay(sid, kind, payload)
        \/ \E reason \in Reasons, details \in Details :
               ReportUser(sid, reason, details)
        \/ Disconnect(sid)

SpecGender == Init /\ [][NextGender]_vars

\* ------------------------------------------------------------ vocabulary
Registered == DOMAIN activeUsers

\* How many times id occurs over the three partitions of pools.
PoolCount(pools, id) ==
    Len(SelectSeq(pools.male, LAMBDA x : x = id))
    + Len(SelectSeq(pools.female, LAMBDA x : x = id))
    + Len(SelectSeq(pools.both, LAMBDA x : x = id))

InPartition(pools, part, id) == \E i \in 1..Len(pools[part]) : pools[part][i] = id

\* How many messages named event were delivered to `to` / to anybody.
CountTo(msgs, event, to) ==
    Len(SelectSeq(msgs, LAMBDA m : m.event = event /\ m.to = to))
CountAny(msgs, event) == Len(SelectSeq(msgs, LAMBDA m : m.event = event))

Paired(a, b) ==
    /\ a \in Registered /\ b \in Registered /\ a # b
    /\ activeUsers[a].currentPeer = b /\ activeUsers[b].currentPeer = a

\* ------------------------------------------------------------------ C1
\* C1: at the end of every turn, for all registered sessions A and B,
\* A.currentPeer = B.id exactly when B.currentPeer = A.id.
Symmetry ==
    \A a \in Registered, b \in Registered :
        (activeUsers[a].currentPeer = b) <=> (activeUsers[b].currentPeer = a)

\* A pairing was just committed while a third session is registered.
SymmetryWitness ==
    /\ turn.op = "find-peer" /\ turn.peer = Null /\ turn.match # Null
    /\ Paired(turn.id, turn.match)
    /\ Cardinality(Registered) = 3

\* ------------------------------------------------------------------ C2
\* C2: a session whose currentPeer is set is in none of the three waiting
\* partitions.
PairedNeverQueued ==
    \A id \in Registered :
        activeUsers[id].currentPeer # Null => PoolCount(waitingUsers, id) = 0

\* A waiting session was just picked as the match while another one keeps
\* waiting.
PairedNeverQueuedWitness ==
    /\ turn.op = "find-peer" /\ turn.match # Null
    /\ Paired(turn.id, turn.match)
    /\ waitingUsers.both # <<>>

\* ------------------------------------------------------------------ C3
\* C3: every identifier is in at most one waiting partition; and
\* addToWaitingPool for the session of the last event, whatever partition
\* its identifier was in and whatever its gender, leaves it in exactly the
\* partition named by the gender and moves nobody else.
PoolExclusivity ==
    /\ \A id \in Sockets : PoolCount(waitingUsers, id) <= 1
    /\ turn.id \in Registered =>
           \A g \in Genders, was \in Genders :
               LET sid    == turn.id
                   users  == [activeUsers EXCEPT ![sid].gender = g]
                   pools  == [waitingUsers EXCEPT ![was] = SetAdd(@, sid)]
                   result == addToWaitingPool(users, pools, sid)
               IN  /\ PoolCount(result, sid) = 1
                   /\ InPartition(result, g, sid)
                   /\ \A part \in Genders :
                          SetDelete(result[part], sid)
                              = SetDelete(pools[part], sid)

\* Two sessions wait at once, the second one just enqueued.
PoolExclusivityWitness ==
    /\ turn.op = "find-peer" /\ turn.match = Null
    /\ Len(waitingUsers.both) >= 2
    /\ InPartition(waitingUsers, "both", turn.id)

\* ------------------------------------------------------------------ C4
\* C4: after find-peer by a registered seeker S: if findMatch gave C, then
\* S and C are each other's currentPeer, C # S, neither is queued, each got
\* exactly one "ready" and nobody else got one; if findMatch gave nothing,
\* S has no peer, is queued in exactly the partition of its gender, and no
\* "ready" was sent.
FindPeerOutcome ==
    (turn.op = "find-peer" /\ turn.id \in Registered) =>
        LET s == turn.id
            c == turn.match
        IN  IF c # Null
            THEN /\ c # s
                 /\ c \in Registered
                 /\ activeUsers[s].currentPeer = c
                 /\ activeUsers[c].currentPeer = s
                 /\ PoolCount(waitingUsers, s) = 0
                 /\ PoolCount(waitingUsers, c) = 0
                 /\ CountTo(emitted, "ready", s) = 1
                 /\ CountTo(emitted, "ready", c) = 1
                 /\ CountAny(emitted, "ready") = 2
                 /\ ~turn.threw
            ELSE /\ activeUsers[s].currentPeer = Null
                 /\ PoolCount(waitingUsers, s) = 1
                 /\ InPartition(waitingUsers, activeUsers[s].gender, s)
                 /\ CountAny(emitted, "ready") = 0

\* A match was committed and the two "ready" messages are all that was sent.
FindPeerOutcomeWitness ==
    /\ turn.op = "find-peer" /\ turn.match # Null
    /\ Len(emitted) = 2

\* ------------------------------------------------------------------ C5
\* C5: a find-peer by S that starts paired with P ends with P unpaired and
\* told "peer-disconnected" exactly once, and with S either paired with a
\* session that was waiting when the turn started or unpaired and queued;
\* S is never still paired with P.
RematchTearsDownFirst ==
    [][(turn'.op = "find-peer" /\ turn'.peer # Null) =>
          LET s   == turn'.id
              p   == turn'.peer
              now == activeUsers'[s].currentPeer
          IN  /\ p \in DOMAIN activeUsers'
              /\ activeUsers'[p].currentPeer = Null
              /\ CountTo(emitted', "peer-disconnected", p) = 1
              /\ now # p
              /\ now # Null => PoolCount(waitingUsers, now) = 1
              /\ now = Null => PoolCount(waitingUsers', s) = 1]_vars

\* S was paired with P and is now paired with somebody else.
RematchTearsDownFirstWitness ==
    /\ turn.op = "find-peer" /\ turn.peer # Null /\ turn.match # Null
    /\ turn.match # turn.peer
    /\ Paired(turn.id, turn.match)

\* ------------------------------------------------------------------ C6
\* C6: report-user by A paired with B stores exactly one new report with
\* reporterId A, reportedId B and the reason given, tells B
\* "peer-disconnected" once and A nothing, and leaves both without a peer;
\* report-user by a session without a peer changes nothing and sends
\* nothing.
ReportTerminatesPairing ==
    [][turn'.op = "report-user" =>
          \A reason \in Reasons, details \in Details :
              ReportUser(turn'.id, reason, details) =>
                  IF CurrentPeerOf(activeUsers, turn'.id) # Null
                  THEN LET a == turn'.id
                           b == activeUsers[a].currentPeer
                       IN  /\ DOMAIN reports' =
                                  DOMAIN reports \cup {reportIdCounter}
                           /\ reportIdCounter \notin DOMAIN reports
                           /\ \A k \in DOMAIN reports : reports'[k] = reports[k]
                           /\ reports'[reportIdCounter].reporterId = a
                           /\ reports'[reportIdCounter].reportedId = b
                           /\ reports'[reportIdCounter].reason = reason
                           /\ CountTo(emitted', "peer-disconnected", b) = 1
                           /\ Len(emitted') = 1
                           /\ b \in DOMAIN activeUsers'
                           /\ activeUsers'[a].currentPeer = Null
                           /\ activeUsers'[b].currentPeer = Null
                  ELSE /\ UNCHANGED <<activeUsers, waitingUsers, reports,
                                      reportIdCounter>>
                       /\ emitted' = <<>>]_vars

\* A report by a paired session was just stored.
ReportTerminatesPairingWitness ==
    /\ turn.op = "report-user" /\ turn.peer # Null
    /\ \E k \in DOMAIN reports :
           reports[k].reporterId = turn.id /\ reports[k].reportedId = turn.peer

\* ------------------------------------------------------------------ C7
\* C7: a relayed event from a registered sender with currentPeer P delivers
\* exactly one message, of the same kind and with the same payload, to P
\* and to nobody else; from any other sender it delivers nothing; it never
\* throws and never changes the registry or the waiting pools.
RelayToCurrentPeerOnly ==
    [][turn'.op = "relay" =>
          /\ UNCHANGED <<activeUsers, waitingUsers>>
          /\ ~turn'.threw
          /\ \A kind \in RelayKinds, payload \in Payloads :
                 emitted' = RelayOut(activeUsers, turn'.id, kind, payload) =>
                     emitted' =
                         IF CurrentPeerOf(activeUsers, turn'.id) # Null
                         THEN <<[to |-> activeUsers[turn'.id].currentPeer,
                                 event |-> kind, payload |-> payload]>>
                         ELSE <<>>]_vars

\* A message was just relayed while a third session is registered.
RelayToCurrentPeerOnlyWitness ==
    /\ turn.op = "relay" /\ turn.peer # Null
    /\ Len(emitted) = 1 /\ emitted[1].to = turn.peer
    /\ Cardinality(Registered) = 3

\* ------------------------------------------------------------------ C8
\* C8: right after a disconnect for an identifier, a second disconnect for
\* the same identifier can only leave the registry and the waiting pools
\* as they are, send nothing and not throw.
IdempotentDisconnect ==
    turn.op = "disconnect" =>
        ~ ENABLED (/\ Disconnect(turn.id)
                   /\ ~ (/\ UNCHANGED <<activeUsers, waitingUsers>>
                         /\ emitted' = <<>>
                         /\ ~turn'.threw))

\* The disconnect of a paired session was just handled (a second one may
\* follow).
IdempotentDisconnectWitness ==
    /\ turn.op = "disconnect" /\ turn.peer # Null
    /\ turn.id \notin Registered /\ turn.peer \in Registered

\* ------------------------------------------------------------------ C9
\* C9: a disconnect, find-peer or report-user by a session paired with Y
\* delivers exactly one "peer-disconnected", to Y; every other turn
\* delivers none.
PeerNotifiedExactlyOnce ==
    IF turn.op \in {"disconnect", "find-peer", "report-user"}
       /\ turn.peer # Null
    THEN /\ CountTo(emitted, "peer-disconnected", turn.peer) = 1
         /\ CountAny(emitted, "peer-disconnected") = 1
    ELSE CountAny(emitted, "peer-disconnected") = 0

\* A re-match request that found nobody: the old peer was told, once.
PeerNotifiedExactlyOnceWitness ==
    /\ turn.op = "find-peer" /\ turn.peer # Null /\ turn.match = Null
    /\ Len(emitted) = 1 /\ emitted[1].to = turn.peer

\* ------------------------------------------------------------------ C10
\* C10: after disconnect(id) the identifier is in neither the registry nor
\* a waiting partition and nobody has it as currentPeer; and always, every
\* currentPeer that is set and every waiting identifier is registered.
NoSessionOutlivesConnection ==
    /\ turn.op = "disconnect" =>
           /\ turn.id \notin Registered
           /\ PoolCount(waitingUsers, turn.id) = 0
           /\ \A u \in Registered : activeUsers[u].currentPeer # turn.id
    /\ \A u \in Registered :
           activeUsers[u].currentPeer # Null =>
               activeUsers[u].currentPeer \in Registered
    /\ \A id \in Sockets :
           PoolCount(waitingUsers, id) > 0 => id \in Registered

\* A session left while its former peer and a waiting session stay.
NoSessionOutlivesConnectionWitness ==
    /\ turn.op = "disconnect" /\ turn.peer \in Registered
    /\ waitingUsers.both # <<>>

\* ------------------------------------------------------------------ C11
\* x's preferences.gender accepts y: it is "both" or it is y's own gender.
GenderAccepts(x, y) ==
    \/ activeUsers[x].preferences.gender = "both"
    \/ activeUsers[x].preferences.gender = activeUsers[y].gender

\* The two preferences.country values are equal or one of them is "any".
CountriesAgree(x, y) ==
    \/ activeUsers[x].preferences.country = activeUsers[y].preferences.country
    \/ activeUsers[x].preferences.country = "any"
    \/ activeUsers[y].preferences.country = "any"

\* C11: whenever find-peer commits a pairing of seeker S and candidate C,
\* each one's preferences.gender is "both" or the other's gender, and the
\* two preferences.country are equal or one of them is "any".
PairingAccordsWithPreferences ==
    (turn.op = "find-peer" /\ turn.match # Null
     /\ turn.id \in Registered /\ turn.match \in Registered) =>
        /\ GenderAccepts(turn.id, turn.match)
        /\ GenderAccepts(turn.match, turn.id)
        /\ CountriesAgree(turn.id, turn.match)

\* ------------------------------------------------------------------ C12
\* The candidate's stored preferences.country suits seeker s.
RegionOk(users, s, c) ==
    \/ users[s].preferences.country = "any"
    \/ /\ c \in DOMAIN users
       /\ \/ users[c].preferences.country = users[s].preferences.country
          \/ users[c].preferences.country = "any"

\* c may be returned to seeker s.
Eligible(users, s, c) == c # s /\ RegionOk(users, s, c)

\* The members of list that may be returned to s, in list order.
EligibleIn(users, s, list) ==
    SelectSeq(list, LAMBDA c : Eligible(users, s, c))

\* C12: a find-peer by a seeker whose preferences.gender is "male" (resp.
\* "female") is matched only with a session waiting in the male (resp.
\* female) Set, never with one waiting elsewhere; when that Set holds no
\* eligible candidate nothing is matched and the seeker is queued in the
\* Set of its own gender.
CategoryFilter ==
    [][(/\ turn'.op = "find-peer"
        /\ turn'.id \in DOMAIN activeUsers
        /\ activeUsers[turn'.id].preferences.gender \in {"male", "female"}) =>
          LET s    == turn'.id
              want == activeUsers[s].preferences.gender
          IN  /\ turn'.match # Null =>
                     /\ InPartition(waitingUsers, want, turn'.match)
                     /\ \A part \in Genders \ {want} :
                            ~InPartition(waitingUsers, part, turn'.match)
              /\ EligibleIn(activeUsers, s, waitingUsers[want]) = <<>> =>
                     /\ turn'.match = Null
                     /\ activeUsers'[s].currentPeer = Null
                     /\ InPartition(waitingUsers', activeUsers[s].gender, s)
                     /\ PoolCount(waitingUsers', s) = 1]_vars

\* A "male" request was matched while a session waiting in another Set was
\* passed over.
CategoryFilterWitness ==
    /\ turn.op = "find-peer" /\ turn.match # Null
    /\ activeUsers[turn.id].preferences.gender = "male"
    /\ waitingUsers.both \o waitingUsers.female # <<>>

\* ------------------------------------------------------------------ C13
\* The waiting identifiers a request for gender `want` looks at, in the
\* order it looks at them.
WaitingFor(pools, want) ==
    IF want \in {"male", "female"} THEN pools[want]
    ELSE pools.male \o pools.female \o pools.both

\* All waiting identifiers.
Waiting(pools) ==
    UNION {{pools[part][i] : i \in 1..Len(pools[part])} : part \in Genders}

\* C13: a find-peer by a seeker whose preferences.country is not "any" is
\* matched only with a candidate whose preferences.country, as stored when
\* the request is handled, is the same or "any"; a seeker whose
\* preferences.country is "any" gets the first waiting candidate other than
\* itself, whatever that candidate's preferences.country.
RegionFilter ==
    [][(turn'.op = "find-peer" /\ turn'.id \in DOMAIN activeUsers) =>
          LET s      == turn'.id
              mine   == activeUsers[s].preferences.country
              others == SelectSeq(
                            WaitingFor(waitingUsers,
                                       activeUsers[s].preferences.gender),
                            LAMBDA c : c # s)
          IN  /\ (mine # "any" /\ turn'.match # Null) =>
                     /\ turn'.match \in DOMAIN activeUsers
                     /\ activeUsers[turn'.match].preferences.country
                            \in {mine, "any"}
              /\ mine = "any" =>
                     turn'.match =
                         IF others = <<>> THEN Null ELSE Head(others)]_vars

\* A seeker asking for "fr" was matched while a session asking for "us"
\* keeps waiting.
RegionFilterWitness ==
    /\ turn.op = "find-peer" /\ turn.match # Null
    /\ activeUsers[turn.id].preferences.country = "fr"
    /\ \E w \in Waiting(waitingUsers) :
           activeUsers[w].preferences.country = "us"

\* ------------------------------------------------------------------ C14
\* C14: update-preferences on a registered session stores the preferences
\* it was given and changes nothing else: not the session's currentPeer or
\* gender, no other session, not the waiting Sets or their order; it sends
\* nothing and pairs nobody.
UpdatePreferencesOnly ==
    [][(turn'.op = "update-preferences" /\ turn'.id \in DOMAIN activeUsers) =>
          LET s == turn'.id
          IN  /\ DOMAIN activeUsers' = DOMAIN activeUsers
              /\ \A u \in DOMAIN activeUsers \ {s} :
                     activeUsers'[u] = activeUsers[u]
              /\ activeUsers'[s].id = activeUsers[s].id
              /\ activeUsers'[s].gender = activeUsers[s].gender
              /\ activeUsers'[s].currentPeer = activeUsers[s].currentPeer
              /\ \A preferences \in Preferences :
                     UpdatePreferences(s, preferences) =>
                         activeUsers'[s].preferences = preferences
              /\ waitingUsers' = waitingUsers
              /\ emitted' = <<>>
              /\ UNCHANGED <<reports, reportIdCounter>>]_vars

\* An unpaired session just set the default preferences while another
\* session, which those preferences accept, is waiting.
UpdatePreferencesOnlyWitness ==
    /\ turn.op = "update-preferences" /\ turn.id \in Registered
    /\ activeUsers[turn.id].currentPeer = Null
    /\ activeUsers[turn.id].preferences
           = [gender |-> "both", country |-> "any"]
    /\ \E w \in Waiting(waitingUsers) : w # turn.id

\* ------------------------------------------------------------------ C15
\* C15: an update-preferences, find-peer, relayed event, report-user or
\* disconnect arriving for an identifier that is not in the registry
\* leaves the registry, the waiting Sets and the report store as they are,
\* sends nothing and does not throw.
SoftMissAbsorbed ==
    [][(/\ turn'.op \in {"update-preferences", "find-peer", "relay",
                         "report-user", "disconnect"}
        /\ turn'.id \notin DOMAIN activeUsers) =>
          /\ UNCHANGED <<activeUsers, waitingUsers, reports, reportIdCounter>>
          /\ emitted' = <<>>
          /\ ~turn'.threw]_vars

\* A find-peer for an unknown identifier was just handled while the other
\* two sessions wait.
SoftMissAbsorbedWitness ==
    /\ turn.op = "find-peer" /\ turn.id \notin Registered
    /\ Cardinality(Waiting(waitingUsers)) = 2

TornDown ==
    IF turn.peer = Null THEN {}
    ELSE CASE turn.op = "report-user" -> {turn.id, turn.peer}
           [] turn.op = "disconnect"  -> {turn.peer}
           [] turn.op = "find-peer"   -> {turn.peer}
           [] OTHER -> {}

PairingStateMachine ==
    [][/\ \A x \in TornDown' \cap DOMAIN activeUsers' :
              /\ activeUsers'[x].currentPeer = Null
              /\ PoolCount(waitingUsers', x) = 0
       /\ \A x \in DOMAIN activeUsers \cap DOMAIN activeUsers' :
              (activeUsers[x].currentPeer = Null
                   /\ activeUsers'[x].currentPeer # Null) =>
                  /\ turn'.op = "find-peer"
                  /\ x = turn'.id \/ PoolCount(waitingUsers, x) > 0]_vars

\* A paired session just disconnected while a third session waits: the
\* session left behind has no peer and is in no partition.
PairingStateMachineWitness ==
    /\ turn.op = "disconnect" /\ turn.peer \in Registered
    /\ activeUsers[turn.peer].currentPeer = Null
    /\ PoolCount(waitingUsers, turn.peer) = 0
    /\ \E y \in Registered : PoolCount(waitingUsers, y) = 1

\* ------------------------------------------------------------------ C18
\* C18: find-peer takes the first candidate, in the order of the
\* candidate list, that passes the region filter and is not the seeker,
\* or none when no candidate passes; a partition lists its members in
\* the order they were inserted (a session that is queued goes to the
\* end of its partition, a session that leaves does not reorder the
\* rest), so of the eligible candidates of one partition the one
\* inserted earliest is taken.
CandidateOrder ==
    [][(turn'.op = "find-peer" /\ turn'.id \in DOMAIN activeUsers) =>
          LET s    == turn'.id
              list == WaitingFor(waitingUsers,
                                 activeUsers[s].preferences.gender)
              el   == EligibleIn(activeUsers, s, list)
              m    == turn'.match
          IN  /\ m = IF el = <<>> THEN Null ELSE Head(el)
              /\ \A part \in Genders :
                     \A i \in 1..Len(waitingUsers[part]) :
                         m = waitingUsers[part][i] =>
                             \A k \in 1..(i - 1) :
                                 ~Eligible(activeUsers, s,
                                           waitingUsers[part][k])
              /\ \A part \in Genders :
                     waitingUsers'[part] =
                         LET rest == SelectSeq(waitingUsers[part],
                                         LAMBDA c : c # s /\ c # m)
                         IN  IF m = Null /\ part = activeUsers[s].gender
                             THEN Append(rest, s)
                             ELSE rest]_vars

\* A find-peer just took a candidate although another session that the
\* seeker could also have been given is still waiting.
CandidateOrderWitness ==
    /\ turn.op = "find-peer" /\ turn.match # Null
    /\ Paired(turn.id, turn.match)
    /\ \E w \in Waiting(waitingUsers) :
           /\ Eligible(activeUsers, turn.id, w)
           /\ activeUsers[turn.id].preferences.gender = "both"

\* ------------------------------------------------------------------ C19
\* Some member of the partition could be given to seeker s.
HoldsEligible(users, pools, part, s) ==
    \E i \in 1..Len(pools[part]) : Eligible(users, s, pools[part][i])

\* A find-peer turn of a registered seeker that asks for either gender.
EitherRequest ==
    /\ turn'.op = "find-peer"
    /\ turn'.id \in DOMAIN activeUsers
    /\ activeUsers[turn'.id].preferences.gender \notin {"male", "female"}

AsksOneGender(users, x) == users[x].preferences.gender \in {"male", "female"}

\* C20: the gender of a session is "both" from its connection on, so the
\* "male" and "female" partitions are always empty (every waiting session
\* is in "both"); a find-peer of a seeker that asks for "male" or
\* "female" commits no pairing and ends with the seeker queued; and such
\* a session gets a peer only as the candidate taken by another session's
\* request for either gender.
OneGenderSeekerOnlyWaits ==
    [][/\ waitingUsers'.male = <<>> /\ waitingUsers'.female = <<>>
       /\ \A u \in DOMAIN activeUsers' : activeUsers'[u].gender = "both"
       /\ (/\ turn'.op = "find-peer"
           /\ turn'.id \in DOMAIN activeUsers
           /\ AsksOneGender(activeUsers, turn'.id)) =>
              /\ turn'.match = Null
              /\ activeUsers'[turn'.id].currentPeer = Null
              /\ InPartition(waitingUsers', "both", turn'.id)
              /\ PoolCount(waitingUsers', turn'.id) = 1
       /\ \A x \in DOMAIN activeUsers \cap DOMAIN activeUsers' :
              (/\ AsksOneGender(activeUsers, x)
               /\ activeUsers[x].currentPeer = Null
               /\ activeUsers'[x].currentPeer # Null) =>
                  /\ turn'.op = "find-peer"
                  /\ turn'.id # x
                  /\ turn'.match = x
                  /\ turn'.id \in DOMAIN activeUsers
                  /\ ~AsksOneGender(activeUsers, turn'.id)]_vars

\* A session that asks for "female" was just taken as the candidate of
\* another session's find-peer while a session that asks for "male" goes
\* on waiting in the "both" partition.
OneGenderSeekerOnlyWaitsWitness ==
    /\ turn.op = "find-peer" /\ turn.match # Null
    /\ Paired(turn.id, turn.match)
    /\ activeUsers[turn.match].preferences.gender = "female"
    /\ \E w \in Registered :
           /\ activeUsers[w].preferences.gender = "male"
           /\ InPartition(waitingUsers, "both", w)
====
